---- MODULE Spec2Model ----
(***************************************************************************)
(* Model of app.py: the gameweek leaderboard service.                      *)
(*                                                                         *)
(*   POST /leaderboard   starts a background thread (process_data) that    *)
(*                       runs get_gw_leaderboard and returns a request id  *)
(*   GET /progress/<id>  reads the shared dictionary progress_data         *)
(*                                                                         *)
(* The upstream service (standings pages, per-team histories) is part of   *)
(* the state and does not change during a behaviour; a single fetch may    *)
(* still fail (fetch_data returns None).  Threads interleave between       *)
(* accesses to shared objects: progress_data and the closure cell          *)
(* processed_count.                                                        *)
(***************************************************************************)
EXTENDS Integers, Sequences, FiniteSets, TLC

\* ---------------------------------------------------------------- bounds
MaxTeams   == 3      \* teams in the league
MaxPages   == 2      \* pages the upstream listing holds
MaxPageLen == 2      \* entries on one page
MaxHist    == 2      \* gameweeks in a team's history
MaxPoints  == 2      \* points of a gameweek: 1..MaxPoints
MaxCost    == 1      \* event_transfers_cost: 0..MaxCost
MaxPeriod  == 2      \* requested gameweek: 0..MaxPeriod
MaxTotal   == 50     \* managers of a league whose progress is polled
\* The pool width and the batch size, scaled down (app.py: 5 and 50) so
\* that full pools and several batches occur within the listing bounds.
MAX_WORKERS == 2
batch_size  == 2

JobIds    == {1, 2}          \* request ids POST /leaderboard hands out
UnknownId == CHOOSE id \in 0..Cardinality(JobIds) : id \notin JobIds   \* an id no POST returns
TeamIds   == 1..MaxTeams

\* ------------------------------------------------------- upstream payloads
\* One entry of standings.results.  The fields are fixed per team.
Manager(t) ==
    [entry |-> t, entry_name |-> 100 + t, player_name |-> 200 + t,
     total |-> 10 * t, rank |-> t]

HasNextVals == {"true", "false", "absent"}

\* What fetch_data returns for a standings url.
NoneData    == [kind |-> "none",        results |-> << >>, has_next |-> "absent"]
NoStandings == [kind |-> "nostandings", results |-> << >>, has_next |-> "absent"]
PageData(results, hn) == [kind |-> "page", results |-> results, has_next |-> hn]

\* One element of history.current.
Entries == [points : 1..MaxPoints, event_transfers_cost : 0..MaxCost]

RECURSIVE SeqsUpTo(_, _)
SeqsUpTo(S, n) ==
    IF n = 0 THEN {<< >>}
    ELSE LET shorter == SeqsUpTo(S, n - 1)
         IN  shorter \cup {Append(s, e) : s \in {x \in shorter : Len(x) = n - 1}, e \in S}

\* What fetch_data returns for a history url.
NoneHistory      == [kind |-> "none",      current |-> << >>]
MalformedHistory == [kind |-> "malformed", current |-> << >>]
OkHistory(c)     == [kind |-> "ok",        current |-> c]
Histories        == {OkHistory(c) : c \in SeqsUpTo(Entries, MaxHist)}
Payloads         == Histories \cup {MalformedHistory}

\* --------------------------------------------------------- pure functions
\* Python's seq[i] on a list of length n: the 1-based position read, or 0
\* for an IndexError.  A negative i counts from the end.
PyIndex(n, i) ==
    IF 0 <= i /\ i < n THEN i + 1
    ELSE IF i < 0 /\ -i <= n THEN n + i + 1
    ELSE 0

\* The value None where a leaderboard row is expected.
NoneResult ==
    [manager_name |-> 0, player_name |-> 0, team_id |-> 0, gw_points |-> 0,
     transfer_cost |-> 0, net_points |-> 0, total_points |-> 0, overall_rank |-> 0]

NetPoints(gw_points, transfer_cost) == gw_points - transfer_cost

\* The try block of fetch_manager_gw_data raises: a payload without
\* 'current' (KeyError), or an index outside the list (IndexError).
Raises(hist, gw) ==
    \/ hist.kind = "malformed"
    \/ /\ hist.kind = "ok"
       /\ Len(hist.current) >= gw
       /\ PyIndex(Len(hist.current), gw - 1) = 0

\* GwData reading history['current'][gameweek] in place of [gameweek - 1].
GwDataNextIndex(manager, hist, gw) ==
    IF hist.kind = "ok" /\ Len(hist.current) >= gw /\ PyIndex(Len(hist.current), gw) # 0
    THEN LET e == hist.current[PyIndex(Len(hist.current), gw)]
         IN  [manager_name |-> manager.entry_name, player_name |-> manager.player_name,
              team_id |-> manager.entry, gw_points |-> e.points,
              transfer_cost |-> e.event_transfers_cost,
              net_points |-> NetPoints(e.points, e.event_transfers_cost),
              total_points |-> manager.total, overall_rank |-> manager.rank]
    ELSE NoneResult

\* The value fetch_manager_gw_data returns for a fetched history: the row
\* of the requested gameweek, or None (no data, short history, exception).
GwData(manager, hist, gw) ==
    IF hist.kind = "ok" /\ Len(hist.current) >= gw /\ ~Raises(hist, gw)
    THEN LET e == hist.current[PyIndex(Len(hist.current), gw - 1)]
         IN  [manager_name |-> manager.entry_name, player_name |-> manager.player_name,
              team_id |-> manager.entry, gw_points |-> e.points,
              transfer_cost |-> e.event_transfers_cost,
              net_points |-> NetPoints(e.points, e.event_transfers_cost),
              total_points |-> manager.total, overall_rank |-> manager.rank]
    ELSE NoneResult

RECURSIVE Reverse(_)
Reverse(s) == IF s = << >> THEN << >> ELSE Append(Reverse(Tail(s)), Head(s))

\* Insert e into the ascending list s behind every element whose key is
\* not greater: what a stable ascending sort does with the next element.
RECURSIVE InsertAsc(_, _)
InsertAsc(s, e) ==
    IF s = << >> THEN <<e>>
    ELSE IF Head(s).gw_points <= e.gw_points
         THEN <<Head(s)>> \o InsertAsc(Tail(s), e)
         ELSE <<e>> \o s

RECURSIVE SortAsc(_)
SortAsc(s) ==
    IF s = << >> THEN << >>
    ELSE InsertAsc(SortAsc(SubSeq(s, 1, Len(s) - 1)), s[Len(s)])

\* A descending sort that reverses an ascending one: rows of equal key end
\* up in reverse order.
SortDescReversedAsc(s) == Reverse(SortAsc(s))

\* list.sort(key=gw_points, reverse=True): the list is reversed, sorted
\* ascending by a stable sort, and reversed again.
SortDesc(s) == Reverse(SortAsc(Reverse(s)))

\* ------------------------------------------------ float arithmetic (double)
\* A positive double is mant * 2^exp with mant a list of MantissaBits bits,
\* most significant first and leading bit 1.
MantissaBits == 53

RECURSIVE BitsValue(_)
BitsValue(bits) ==
    IF bits = << >> THEN 0
    ELSE 2 * BitsValue(SubSeq(bits, 1, Len(bits) - 1)) + bits[Len(bits)]

\* bits + 1; a carry out of the top bit lengthens the list by one.
RECURSIVE IncBits(_)
IncBits(bits) ==
    IF bits = << >> THEN <<1>>
    ELSE IF bits[Len(bits)] = 0
         THEN Append(SubSeq(bits, 1, Len(bits) - 1), 1)
         ELSE Append(IncBits(SubSeq(bits, 1, Len(bits) - 1)), 0)

\* Round the bit list (value bits.sticky..., at least MantissaBits long) to
\* MantissaBits bits, to nearest, ties to even.  drop is the number of low
\* bits given up: the exponent grows by it.
RoundBits(bits, sticky) ==
    LET keep  == SubSeq(bits, 1, MantissaBits)
        rest  == SubSeq(bits, MantissaBits + 1, Len(bits))
        guard == IF rest = << >> THEN 0 ELSE rest[1]
        low   == sticky \/ \E i \in 2..Len(rest) : rest[i] = 1
        up    == guard = 1 /\ (low \/ keep[MantissaBits] = 1)
        inc   == IF up THEN IncBits(keep) ELSE keep
    IN  IF Len(inc) > MantissaBits
        THEN [mant |-> SubSeq(inc, 1, MantissaBits), drop |-> Len(rest) + 1]
        ELSE [mant |-> inc, drop |-> Len(rest)]

\* n more quotient bits of r / t (0 <= r < t), appended to acc.
RECURSIVE LongDiv(_, _, _, _)
LongDiv(r, t, n, acc) ==
    IF n = 0 THEN [bits |-> acc, rem |-> r]
    ELSE LET b == IF 2 * r >= t THEN 1 ELSE 0
         IN  LongDiv(2 * r - b * t, t, n - 1, Append(acc, b))

\* The least k with p * 2^k >= t, for 1 <= p < t.
RECURSIVE NormShift(_, _)
NormShift(p, t) == IF p >= t THEN 0 ELSE 1 + NormShift(2 * p, t)

\* The greatest e with t * 2^e <= p, for p >= t >= 1.
RECURSIVE NormExp(_, _)
NormExp(p, t) == IF 2 * t > p THEN 0 ELSE 1 + NormExp(p, 2 * t)

RECURSIVE Pow2(_)
Pow2(n) == IF n = 0 THEN 1 ELSE 2 * Pow2(n - 1)

\* p / t for ints p >= 1, t >= 1: the double nearest to the quotient.
TrueDiv(p, t) ==
    LET e  == IF p >= t THEN NormExp(p, t) ELSE -NormShift(p, t)
        n  == IF e >= 0 THEN p ELSE p * Pow2(-e)
        d  == IF e >= 0 THEN t * Pow2(e) ELSE t
        q  == LongDiv(n - d, d, MantissaBits, <<1>>)
        r  == RoundBits(q.bits, q.rem # 0)
    IN  [mant |-> r.mant, exp |-> e + r.drop - MantissaBits]

\* bits * c for a small int c, bits least significant first.
RECURSIVE MulSmallLsb(_, _, _)
MulSmallLsb(lsb, c, carry) ==
    IF lsb = << >>
    THEN IF carry = 0 THEN << >> ELSE <<carry % 2>> \o MulSmallLsb(<< >>, c, carry \div 2)
    ELSE LET v == Head(lsb) * c + carry
         IN  <<v % 2>> \o MulSmallLsb(Tail(lsb), c, v \div 2)

\* x * c for a double x and a small int c >= 1: the double nearest to the
\* product.
MulSmall(x, c) ==
    LET prod == Reverse(MulSmallLsb(Reverse(x.mant), c, 0))
        r    == RoundBits(prod, FALSE)
    IN  [mant |-> r.mant, exp |-> x.exp + r.drop]

\* int(x) for a positive double x below 2^MantissaBits: the integer part.
IntOf(x) ==
    IF x.exp >= 0 THEN BitsValue(x.mant) * Pow2(x.exp)
    ELSE IF -x.exp >= MantissaBits THEN 0
    ELSE BitsValue(SubSeq(x.mant, 1, MantissaBits + x.exp))

\* int((processed / total) * 100) if total > 0 else 0
PercentageOf(processed, total) ==
    IF total > 0
    THEN IF processed = 0 THEN 0
         ELSE IntOf(MulSmall(TrueDiv(processed, total), 100))
    ELSE 0

\* The percentages of the counts a job over MaxTeams teams can hold,
\* computed once.
PercentageTable ==
    [total \in 0..MaxTeams |->
        [processed \in 0..(2 * MaxTeams) |-> PercentageOf(processed, total)]]

Percentage(processed, total) ==
    IF total \in 0..MaxTeams /\ processed \in 0..(2 * MaxTeams)
    THEN PercentageTable[total][processed]
    ELSE PercentageOf(processed, total)

\* ------------------------------------------------------------------ state
VARIABLES
    standings,        \* upstream: the pages of the league's standings
    history,          \* upstream: team id -> payload of entry/<id>/history/
    gameweek,         \* job -> the gameweek of its form
    progress_data,    \* the module-level dict: request id -> entry
    pc,               \* job -> where its background thread stands
    page,             \* job -> fetch_league_data's page
    all_results,      \* job -> fetch_league_data's all_results
    league_data,      \* job -> the value fetch_league_data returned
    managers,         \* job -> get_gw_leaderboard's managers
    batch_start,      \* job -> the batch loop's i
    units,            \* job -> the futures of the current batch
    processed_count,  \* job -> the closure cell processed_count
    leaderboard,      \* job -> get_gw_leaderboard's leaderboard
    fetched,          \* job -> ids of the teams whose history fetch returned data
    presort,          \* job -> the list as it was handed to leaderboard.sort
    poll,             \* the get_progress request in flight, if any
    response          \* the last response get_progress sent

upstream == <<standings, history>>
jobvars  == <<gameweek, pc, page, all_results, league_data, managers, batch_start,
              units, processed_count, leaderboard, fetched, presort>>
pollvars == <<poll, response>>
vars     == <<standings, history, gameweek, progress_data, pc, page, all_results,
              league_data, managers, batch_start, units, processed_count,
              leaderboard, fetched, presort, poll, response>>

\* request_id not in progress_data
NoEntry ==
    [present |-> FALSE, total |-> 0, processed |-> 0, status |-> "none",
     has_data |-> FALSE, data |-> << >>]

NoPoll == [at |-> "idle", id |-> UnknownId, total |-> 0, processed |-> 0]

\* kind tells the keys of the answer: "error" (error), "final" (status,
\* gameweek, league_id, leaderboard, total_managers), "progress" (status,
\* total, processed, percentage); "none" before the first answer.
NoResponse ==
    [kind |-> "none", code |-> 0, id |-> UnknownId, status |-> "none", total |-> 0,
     processed |-> 0, percentage |-> 0, leaderboard |-> << >>, total_managers |-> 0]

\* The listings of at most MaxPages pages: page k holds the next teams.
RECURSIVE PagesFrom(_, _)
PagesFrom(first, n) ==
    IF n = 0 THEN {<< >>}
    ELSE UNION {{<<PageData([i \in 1..k |-> Manager(first + i - 1)], hn)>> \o rest :
                     hn \in HasNextVals, rest \in PagesFrom(first + k, n - 1)} :
                k \in 0..MaxPageLen}

RECURSIVE TeamsOn(_)
TeamsOn(l) == IF l = << >> THEN 0 ELSE Len(Head(l).results) + TeamsOn(Tail(l))

Listings == {l \in UNION {PagesFrom(1, n) : n \in 1..MaxPages} : TeamsOn(l) <= MaxTeams}

\* The listings whose has_next says whether a page follows and whose pages
\* before the last are full.
PagedListings ==
    {l \in Listings :
        \A n \in 1..Len(l) :
            /\ l[n].has_next = (IF n < Len(l) THEN "true" ELSE "false")
            /\ n < Len(l) => Len(l[n].results) = MaxPageLen}

\* Gameweek i of team t, and the history of team t up to gameweek n.
EntryOf(t, i) ==
    [points |-> 1 + ((t + i) % MaxPoints), event_transfers_cost |-> (t + i) % (MaxCost + 1)]

HistoryOf(t, n) == OkHistory([i \in 1..n |-> EntryOf(t, i)])

Periods == 0..MaxPeriod

\* The forms in which every job asks for the same gameweek.
SameForms(periods) == {[j \in JobIds |-> g] : g \in periods}

\* The state before any request, for a set of upstream states and forms.
InitWith(listings, histories, forms) ==
    /\ standings \in listings
    /\ history \in histories
    /\ gameweek \in forms
    /\ progress_data = [j \in JobIds |-> NoEntry]
    /\ pc = [j \in JobIds |-> "idle"]
    /\ page = [j \in JobIds |-> 1]
    /\ all_results = [j \in JobIds |-> << >>]
    /\ league_data = [j \in JobIds |-> NoneData]
    /\ managers = [j \in JobIds |-> << >>]
    /\ batch_start = [j \in JobIds |-> 0]
    /\ units = [j \in JobIds |-> << >>]
    /\ processed_count = [j \in JobIds |-> 0]
    /\ leaderboard = [j \in JobIds |-> << >>]
    /\ fetched = [j \in JobIds |-> {}]
    /\ presort = [j \in JobIds |-> << >>]
    /\ poll = NoPoll
    /\ response = NoResponse

\* ------------------------------------------------ POST /leaderboard, listing
\* leaderboard(): the form is read, the thread is started and the request
\* id is returned.  (A form that int() rejects is answered 500 and starts
\* nothing; it changes no state and is left out.)
StartJob(j) ==
    /\ pc[j] = "idle"
    /\ pc' = [pc EXCEPT ![j] = "listing"]
    /\ UNCHANGED <<upstream, gameweek, progress_data, page, all_results, league_data,
                   managers, batch_start, units, processed_count, leaderboard,
                   fetched, presort, pollvars>>

\* What fetch_data can return for page n: None, a payload without
\* 'standings', or the upstream's page (an empty one behind the last).
PageOutcomes(n) ==
    {NoneData, NoStandings,
     IF n <= Len(standings) THEN standings[n] ELSE PageData(<< >>, "false")}

\* AfterLoop returning the last page as it was fetched.
AfterLoopKeepLast(data, acc) == [raise |-> FALSE, value |-> data]

\* fetch_league_data's statements behind the loop, for the last fetched
\* data: the value returned, or "raise" when data cannot be subscripted.
AfterLoop(data, acc) ==
    IF acc # << >>
    THEN IF data.kind = "page"
         THEN [raise |-> FALSE, value |-> [data EXCEPT !.results = acc]]
         ELSE [raise |-> TRUE, value |-> data]
    ELSE [raise |-> FALSE, value |-> data]

\* One turn of fetch_league_data's loop, and its return when the loop ends.
FetchPage(j) ==
    /\ pc[j] = "listing"
    /\ \E data \in PageOutcomes(page[j]) :
         LET acc  == IF data.kind = "page" THEN all_results[j] \o data.results
                     ELSE all_results[j]
             more == data.kind = "page" /\ data.results # << >> /\ data.has_next = "true"
             ret  == AfterLoop(data, acc)
         IN  /\ all_results' = [all_results EXCEPT ![j] = acc]
             /\ IF more
                THEN /\ page' = [page EXCEPT ![j] = page[j] + 1]
                     /\ UNCHANGED <<pc, league_data>>
                ELSE /\ league_data' = [league_data EXCEPT ![j] = ret.value]
                     /\ pc' = [pc EXCEPT ![j] = IF ret.raise THEN "crashed" ELSE "listed"]
                     /\ UNCHANGED page
    /\ UNCHANGED <<upstream, gameweek, progress_data, managers, batch_start, units,
                   processed_count, leaderboard, fetched, presort, pollvars>>

\* ------------------------------------------------------- get_gw_leaderboard
Min(a, b) == IF a <= b THEN a ELSE b

\* A total one short of the number of managers.
TotalOfAllButOne(ms) == IF Len(ms) > 0 THEN Len(ms) - 1 ELSE 0

\* total_managers = len(managers)
TotalOf(ms) == Len(ms)

\* From the return of fetch_league_data to the leaderboard's creation:
\* no data ends the job with the error tuple, which process_data drops; a
\* payload without 'standings' raises; otherwise the entry of the job is
\* stored in progress_data.
BeginAggregation(j) ==
    /\ pc[j] = "listed"
    /\ IF league_data[j].kind = "none"
       THEN /\ pc' = [pc EXCEPT ![j] = "failed"]
            /\ UNCHANGED <<progress_data, managers>>
       ELSE IF league_data[j].kind = "nostandings"
       THEN /\ pc' = [pc EXCEPT ![j] = "crashed"]
            /\ UNCHANGED <<progress_data, managers>>
       ELSE /\ managers' = [managers EXCEPT ![j] = league_data[j].results]
            /\ progress_data' = [progress_data EXCEPT ![j] =
                   [present |-> TRUE, total |-> TotalOf(league_data[j].results),
                    processed |-> 0, status |-> "processing",
                    has_data |-> FALSE, data |-> << >>]]
            /\ pc' = [pc EXCEPT ![j] = "loop"]
    /\ UNCHANGED <<upstream, gameweek, page, all_results, league_data, batch_start,
                   units, processed_count, leaderboard, fetched, presort, pollvars>>

\* managers[i:i + batch_size], i counted from 0
Batch(ms, i) == SubSeq(ms, i + 1, Min(i + batch_size, Len(ms)))

\* The head of the batch loop with a batch left: every manager of the
\* batch is submitted to a new executor.
SubmitBatch(j) ==
    /\ pc[j] = "loop"
    /\ batch_start[j] < Len(managers[j])
    /\ units' = [units EXCEPT ![j] =
           [k \in 1..Len(Batch(managers[j], batch_start[j])) |->
               [at |-> "queued", manager |-> Batch(managers[j], batch_start[j])[k],
                result |-> NoneResult, tmp |-> 0]]]
    /\ pc' = [pc EXCEPT ![j] = "wait"]
    /\ UNCHANGED <<upstream, gameweek, progress_data, page, all_results, league_data,
                   managers, batch_start, processed_count, leaderboard, fetched,
                   presort, pollvars>>

Busy(j) == {k \in 1..Len(units[j]) : units[j][k].at \in {"running", "inc", "read", "store"}}

\* StartUnit in a pool that starts a thread for every call.
StartUnitUnbounded(j, u) ==
    /\ pc[j] = "wait"
    /\ u \in 1..Len(units[j])
    /\ units[j][u].at = "queued"
    /\ \A k \in 1..(u - 1) : units[j][k].at # "queued"
    /\ units' = [units EXCEPT ![j][u].at = "running"]
    /\ UNCHANGED <<upstream, gameweek, progress_data, pc, page, all_results,
                   league_data, managers, batch_start, processed_count, leaderboard,
                   fetched, presort, pollvars>>

\* A pool thread takes the oldest queued call; the pool has MAX_WORKERS
\* threads.
StartUnit(j, u) ==
    /\ pc[j] = "wait"
    /\ u \in 1..Len(units[j])
    /\ units[j][u].at = "queued"
    /\ \A k \in 1..(u - 1) : units[j][k].at # "queued"
    /\ Cardinality(Busy(j)) < MAX_WORKERS
    /\ units' = [units EXCEPT ![j][u].at = "running"]
    /\ UNCHANGED <<upstream, gameweek, progress_data, pc, page, all_results,
                   league_data, managers, batch_start, processed_count, leaderboard,
                   fetched, presort, pollvars>>

\* What fetch_data can return for the history of team t.
HistoryOutcomes(t) == {NoneHistory, history[t]}

\* FetchHistory without the except clause: an exception of the try block
\* reaches future.result() and ends the job's thread.
FetchHistoryUncaught(j, u) ==
    /\ pc[j] = "wait"
    /\ u \in 1..Len(units[j])
    /\ units[j][u].at = "running"
    /\ \E hist \in HistoryOutcomes(units[j][u].manager.entry) :
         /\ units' = [units EXCEPT ![j][u] =
                [@ EXCEPT !.at = "inc",
                          !.result = GwData(units[j][u].manager, hist, gameweek[j]),
                          !.tmp = processed_count[j]]]
         /\ fetched' = [fetched EXCEPT ![j] =
                IF hist.kind = "none" THEN @ ELSE @ \cup {units[j][u].manager.entry}]
         /\ pc' = [pc EXCEPT ![j] = IF Raises(hist, gameweek[j]) THEN "crashed" ELSE @]
    /\ UNCHANGED <<upstream, gameweek, progress_data, page, all_results,
                   league_data, managers, batch_start, processed_count, leaderboard,
                   presort, pollvars>>

\* fetch_manager_gw_data up to the finally block: the history arrives (or
\* the fetch fails), the row is derived, any exception is caught; then the
\* finally block reads processed_count (processed_count += 1, first half).
FetchHistory(j, u) ==
    /\ pc[j] = "wait"
    /\ u \in 1..Len(units[j])
    /\ units[j][u].at = "running"
    /\ \E hist \in HistoryOutcomes(units[j][u].manager.entry) :
         /\ units' = [units EXCEPT ![j][u] =
                [@ EXCEPT !.at = "inc",
                          !.result = GwData(units[j][u].manager, hist, gameweek[j]),
                          !.tmp = processed_count[j]]]
         /\ fetched' = [fetched EXCEPT ![j] =
                IF hist.kind = "none" THEN @ ELSE @ \cup {units[j][u].manager.entry}]
    /\ UNCHANGED <<upstream, gameweek, progress_data, pc, page, all_results,
                   league_data, managers, batch_start, processed_count, leaderboard,
                   presort, pollvars>>

\* processed_count += 1, second half: the sum is stored in the cell.
IncrementCount(j, u) ==
    /\ pc[j] = "wait"
    /\ u \in 1..Len(units[j])
    /\ units[j][u].at = "inc"
    /\ processed_count' = [processed_count EXCEPT ![j] = units[j][u].tmp + 1]
    /\ units' = [units EXCEPT ![j][u].at = "read"]
    /\ UNCHANGED <<upstream, gameweek, progress_data, pc, page, all_results,
                   league_data, managers, batch_start, leaderboard, fetched, presort,
                   pollvars>>

\* progress_data[request_id]['processed'] = processed_count, first half:
\* the cell is read.
ReadCount(j, u) ==
    /\ pc[j] = "wait"
    /\ u \in 1..Len(units[j])
    /\ units[j][u].at = "read"
    /\ units' = [units EXCEPT ![j][u] = [@ EXCEPT !.at = "store", !.tmp = processed_count[j]]]
    /\ UNCHANGED <<upstream, gameweek, progress_data, pc, page, all_results,
                   league_data, managers, batch_start, processed_count, leaderboard,
                   fetched, presort, pollvars>>

\* StoreProcessed on a counter field that all entries share.
StoreProcessedShared(j, u) ==
    /\ pc[j] = "wait"
    /\ u \in 1..Len(units[j])
    /\ units[j][u].at = "store"
    /\ progress_data' = [k \in JobIds |->
           IF progress_data[k].present
           THEN [progress_data[k] EXCEPT !.processed = units[j][u].tmp]
           ELSE progress_data[k]]
    /\ units' = [units EXCEPT ![j][u] = [@ EXCEPT !.at = "finished", !.tmp = 0]]
    /\ UNCHANGED <<upstream, gameweek, pc, page, all_results, league_data, managers,
                   batch_start, leaderboard, fetched, presort, processed_count,
                   pollvars>>

\* Second half: the value read is stored in the job's entry, and the call
\* returns (its future is finished).
StoreProcessed(j, u) ==
    /\ pc[j] = "wait"
    /\ u \in 1..Len(units[j])
    /\ units[j][u].at = "store"
    /\ progress_data' = [progress_data EXCEPT ![j].processed = units[j][u].tmp]
    /\ units' = [units EXCEPT ![j][u] = [@ EXCEPT !.at = "finished", !.tmp = 0]]
    /\ UNCHANGED <<upstream, gameweek, pc, page, all_results, league_data, managers,
                   batch_start, processed_count, leaderboard, fetched, presort,
                   pollvars>>

\* The as_completed loop takes a finished future and appends its result,
\* unless it is None.  With the last future of the batch the executor is
\* shut down and the batch loop moves on.
Collect(j, u) ==
    /\ pc[j] = "wait"
    /\ u \in 1..Len(units[j])
    /\ units[j][u].at = "finished"
    /\ leaderboard' = [leaderboard EXCEPT ![j] =
           IF units[j][u].result # NoneResult THEN Append(@, units[j][u].result) ELSE @]
    /\ IF \A k \in 1..Len(units[j]) : k = u \/ units[j][k].at = "collected"
       THEN /\ units' = [units EXCEPT ![j] = << >>]
            /\ batch_start' = [batch_start EXCEPT ![j] = @ + batch_size]
            /\ pc' = [pc EXCEPT ![j] = "loop"]
       ELSE /\ units' = [units EXCEPT ![j][u] =
                   [@ EXCEPT !.at = "collected", !.result = NoneResult]]
            /\ UNCHANGED <<batch_start, pc>>
    /\ UNCHANGED <<upstream, gameweek, progress_data, page, all_results, league_data,
                   managers, processed_count, fetched, presort, pollvars>>

\* Complete without the test that ends the batch loop.
CompleteEarly(j) ==
    /\ pc[j] = "loop"
    /\ presort' = [presort EXCEPT ![j] = leaderboard[j]]
    /\ leaderboard' = [leaderboard EXCEPT ![j] = SortDesc(@)]
    /\ progress_data' = [progress_data EXCEPT ![j].status = "completed"]
    /\ pc' = [pc EXCEPT ![j] = "return"]
    /\ UNCHANGED <<upstream, gameweek, page, all_results, league_data, managers,
                   batch_start, units, processed_count, fetched, pollvars>>

\* Behind the batch loop: the leaderboard is sorted and the status of the
\* job's entry is set to 'completed'.
Complete(j) ==
    /\ pc[j] = "loop"
    /\ batch_start[j] >= Len(managers[j])
    /\ presort' = [presort EXCEPT ![j] = leaderboard[j]]
    /\ leaderboard' = [leaderboard EXCEPT ![j] = SortDesc(@)]
    /\ progress_data' = [progress_data EXCEPT ![j].status = "completed"]
    /\ pc' = [pc EXCEPT ![j] = "return"]
    /\ UNCHANGED <<upstream, gameweek, page, all_results, league_data, managers,
                   batch_start, units, processed_count, fetched, pollvars>>

\* Publish without the store of the leaderboard.
PublishDropped(j) ==
    /\ pc[j] = "return"
    /\ pc' = [pc EXCEPT ![j] = "done"]
    /\ UNCHANGED <<upstream, gameweek, progress_data, page, all_results, league_data,
                   managers, batch_start, units, processed_count, leaderboard,
                   fetched, presort, pollvars>>

\* process_data: get_gw_leaderboard returned without an error, and the
\* leaderboard is stored in the job's entry.
Publish(j) ==
    /\ pc[j] = "return"
    /\ progress_data' = [progress_data EXCEPT
           ![j] = [@ EXCEPT !.has_data = TRUE, !.data = leaderboard[j]]]
    /\ pc' = [pc EXCEPT ![j] = "done"]
    /\ UNCHANGED <<upstream, gameweek, page, all_results, league_data, managers,
                   batch_start, units, processed_count, leaderboard, fetched, presort,
                   pollvars>>

\* ------------------------------------------------------ GET /progress/<id>
Known(id) == id \in JobIds /\ progress_data[id].present

\* get_progress up to the first read of 'processed': an id that is not in
\* progress_data is answered 404, a completed entry holding 'data' is
\* answered with the leaderboard; otherwise 'total' and 'processed' are
\* read for the progress answer.
PollBegin(id) ==
    /\ poll.at = "idle"
    /\ IF ~Known(id)
       THEN /\ response' = [NoResponse EXCEPT !.kind = "error", !.code = 404, !.id = id]
            /\ UNCHANGED poll
       ELSE IF progress_data[id].status = "completed" /\ progress_data[id].has_data
       THEN /\ response' = [NoResponse EXCEPT
                   !.kind = "final", !.code = 200, !.id = id, !.status = "completed",
                   !.leaderboard = progress_data[id].data,
                   !.total_managers = Len(progress_data[id].data)]
            /\ UNCHANGED poll
       ELSE /\ poll' = [at |-> "mid", id |-> id, total |-> progress_data[id].total,
                        processed |-> progress_data[id].processed]
            /\ UNCHANGED response
    /\ UNCHANGED <<upstream, jobvars, progress_data>>

\* PollEnd answering with the stored status in place of 'processing'.
PollEndStoredStatus ==
    /\ poll.at = "mid"
    /\ response' = [NoResponse EXCEPT
           !.kind = "progress", !.code = 200, !.id = poll.id, !.status = progress_data[poll.id].status,
           !.total = poll.total, !.processed = poll.processed,
           !.percentage = Percentage(progress_data[poll.id].processed, poll.total)]
    /\ poll' = NoPoll
    /\ UNCHANGED <<upstream, jobvars, progress_data>>

\* The rest of the progress answer: 'processed' is read again for the
\* percentage, and the answer is sent with the status 'processing'.
PollEnd ==
    /\ poll.at = "mid"
    /\ response' = [NoResponse EXCEPT
           !.kind = "progress", !.code = 200, !.id = poll.id, !.status = "processing",
           !.total = poll.total, !.processed = poll.processed,
           !.percentage = Percentage(progress_data[poll.id].processed, poll.total)]
    /\ poll' = NoPoll
    /\ UNCHANGED <<upstream, jobvars, progress_data>>

\* ---------------------------------------------------------- specifications
UnitIds == 1..batch_size

\* The steps of the background thread of job j and of its pool threads.
JobStep(j) ==
    \/ StartJob(j)
    \/ FetchPage(j)
    \/ BeginAggregation(j)
    \/ SubmitBatch(j)
    \/ \E u \in UnitIds : StartUnit(j, u)
    \/ \E u \in UnitIds : FetchHistory(j, u)
    \/ \E u \in UnitIds : IncrementCount(j, u)
    \/ \E u \in UnitIds : ReadCount(j, u)
    \/ \E u \in UnitIds : StoreProcessed(j, u)
    \/ \E u \in UnitIds : Collect(j, u)
    \/ Complete(j)
    \/ Publish(j)

PollStep(ids) ==
    \/ \E id \in ids : PollBegin(id)
    \/ PollEnd

\* One job over a league whose teams have played one gameweek, and a
\* client polling the job's id or an unknown one.
Init ==
    InitWith(PagedListings, {[t \in TeamIds |-> HistoryOf(t, 1)]}, SameForms({1}))

Next == JobStep(1) \/ PollStep({1, UnknownId})

Spec == Init /\ [][Next]_vars

\* One job and no client, over the full league.  The teams have all played
\* the same number of gameweeks (0 to MaxHist) or all answer with a
\* malformed payload, or each team is one or two steps ahead of the team
\* before it.
PayloadOf(t, n) == IF n > MaxHist THEN MalformedHistory ELSE HistoryOf(t, n)

RowHistories ==
    {[t \in TeamIds |-> PayloadOf(t, n)] : n \in 0..(MaxHist + 1)}
    \cup {[t \in TeamIds |-> PayloadOf(t, (n + k * t) % (MaxHist + 2))] :
              n \in 0..(MaxHist + 1), k \in 1..2}

InitRows ==
    InitWith({l \in PagedListings : TeamsOn(l) = MaxTeams}, RowHistories,
             SameForms(Periods))

NextRows == JobStep(1)

SpecRows == InitRows /\ [][NextRows]_vars

\* Two jobs for the same gameweek over the same league, whose teams all
\* scored the same; no client.
InitPair ==
    InitWith({l \in PagedListings : Len(l) = 1 /\ TeamsOn(l) = MaxPageLen},
             {[t \in TeamIds |-> HistoryOf(1, 1)]}, SameForms({1}))

NextPair == JobStep(1) \/ JobStep(2)

SpecPair == InitPair /\ [][NextPair]_vars

\* fetch_league_data alone, over every listing: pages of any length, empty
\* ones and ones behind the page whose has_next ends the loop included.
InitPages ==
    InitWith(Listings, {[t \in TeamIds |-> HistoryOf(t, 1)]}, SameForms({1}))

NextPages == StartJob(1) \/ FetchPage(1) \/ BeginAggregation(1)

SpecPages == InitPages /\ [][NextPages]_vars


\* get_progress alone, on the entry of a job in any stage of its work: the
\* entry holds any total up to MaxTotal and any processed up to total.
\* get_progress reads nothing but progress_data; the job does not move.
InitPercent ==
    /\ standings = <<PageData(<< >>, "false")>>
    /\ history = [t \in TeamIds |-> HistoryOf(t, 1)]
    /\ gameweek \in SameForms({1})
    /\ \E total \in 0..MaxTotal : \E processed \in 0..total :
           progress_data = [j \in JobIds |->
               IF j = 1
               THEN [present |-> TRUE, total |-> total, processed |-> processed,
                     status |-> "processing", has_data |-> FALSE, data |-> << >>]
               ELSE NoEntry]
    /\ pc = [j \in JobIds |-> IF j = 1 THEN "wait" ELSE "idle"]
    /\ page = [j \in JobIds |-> 1]
    /\ all_results = [j \in JobIds |-> << >>]
    /\ league_data = [j \in JobIds |-> NoneData]
    /\ managers = [j \in JobIds |-> << >>]
    /\ batch_start = [j \in JobIds |-> 0]
    /\ units = [j \in JobIds |-> << >>]
    /\ processed_count = [j \in JobIds |-> progress_data[j].processed]
    /\ leaderboard = [j \in JobIds |-> << >>]
    /\ fetched = [j \in JobIds |-> {}]
    /\ presort = [j \in JobIds |-> << >>]
    /\ poll = NoPoll
    /\ response = NoResponse

NextPercent == PollStep({1})

SpecPercent == InitPercent /\ [][NextPercent]_vars

\* Two jobs over the same league of one team, job j for gameweek j, and a
\* client polling both ids.
InitShared ==
    InitWith({<<PageData(<<Manager(1)>>, "false")>>},
             {[t \in TeamIds |-> HistoryOf(t, Cardinality(JobIds))]},
             {[j \in JobIds |-> j]})

NextShared == JobStep(1) \/ JobStep(2) \/ PollStep(JobIds)

SpecShared == InitShared /\ [][NextShared]_vars

\* Spec with its scheduling: the threads of the job are run as long as one
\* of them can take a step (every fetch returns, with data or without, at
\* the latest when its timeout expires), get_progress runs to its end, and
\* the client keeps polling the job's id.
SpecLive ==
    /\ Spec
    /\ WF_vars(JobStep(1))
    /\ WF_vars(PollBegin(1))
    /\ WF_vars(PollEnd)

\* The batch loop for a batch size given as a parameter: managers[i:i + size],
\* the head of the loop with a batch left, and the as_completed loop.
BatchBy(ms, i, size) == SubSeq(ms, i + 1, Min(i + size, Len(ms)))

SubmitBatchBy(j, size) ==
    /\ pc[j] = "loop"
    /\ batch_start[j] < Len(managers[j])
    /\ units' = [units EXCEPT ![j] =
           [k \in 1..Len(BatchBy(managers[j], batch_start[j], size)) |->
               [at |-> "queued", manager |-> BatchBy(managers[j], batch_start[j], size)[k],
                result |-> NoneResult, tmp |-> 0]]]
    /\ pc' = [pc EXCEPT ![j] = "wait"]
    /\ UNCHANGED <<upstream, gameweek, progress_data, page, all_results, league_data,
                   managers, batch_start, processed_count, leaderboard, fetched,
                   presort, pollvars>>

CollectBy(j, u, size) ==
    /\ pc[j] = "wait"
    /\ u \in 1..Len(units[j])
    /\ units[j][u].at = "finished"
    /\ leaderboard' = [leaderboard EXCEPT ![j] =
           IF units[j][u].result # NoneResult THEN Append(@, units[j][u].result) ELSE @]
    /\ IF \A k \in 1..Len(units[j]) : k = u \/ units[j][k].at = "collected"
       THEN /\ units' = [units EXCEPT ![j] = << >>]
            /\ batch_start' = [batch_start EXCEPT ![j] = @ + size]
            /\ pc' = [pc EXCEPT ![j] = "loop"]
       ELSE /\ units' = [units EXCEPT ![j][u] =
                   [@ EXCEPT !.at = "collected", !.result = NoneResult]]
            /\ UNCHANGED <<batch_start, pc>>
    /\ UNCHANGED <<upstream, gameweek, progress_data, page, all_results, league_data,
                   managers, processed_count, fetched, presort, pollvars>>

\* The steps of job j when batch_size is size.
JobStepBy(j, size) ==
    \/ StartJob(j)
    \/ FetchPage(j)
    \/ BeginAggregation(j)
    \/ SubmitBatchBy(j, size)
    \/ \E u \in 1..size : StartUnit(j, u)
    \/ \E u \in 1..size : FetchHistory(j, u)
    \/ \E u \in 1..size : IncrementCount(j, u)
    \/ \E u \in 1..size : ReadCount(j, u)
    \/ \E u \in 1..size : StoreProcessed(j, u)
    \/ \E u \in 1..size : CollectBy(j, u, size)
    \/ Complete(j)
    \/ Publish(j)

\* A batch size that holds every league of the model in one batch, as 50
\* holds every league of up to 50 teams.
WholeLeague == MaxTeams

\* The thread of job j has ended.
Ended(j) == pc[j] \in {"done", "failed", "crashed"}

\* Two runs over the same full league, whose teams all scored the same,
\* for the same gameweek, one after the other: job 2 with a batch that
\* holds the whole league, which is more than the pool has threads, then
\* job 1 with batch_size, which takes two batches.
InitBatches ==
    InitWith({l \in PagedListings : TeamsOn(l) = MaxTeams},
             {[t \in TeamIds |-> HistoryOf(1, 1)]}, SameForms({1}))

NextBatches == JobStepBy(2, WholeLeague) \/ (Ended(2) /\ JobStep(1))

SpecBatches == InitBatches /\ [][NextBatches]_vars

\* One job over a league of two batches, with a batch size one above the
\* number of pool threads: as in the code (50 against 5), a full batch has
\* more calls than the pool has threads.  No client.
PoolBatch == MAX_WORKERS + 1

PoolTeams == PoolBatch + 1

InitPool ==
    InitWith({<<PageData([i \in 1..PoolTeams |-> Manager(i)], "false")>>},
             {[t \in 1..PoolTeams |-> HistoryOf(t, 1)]}, SameForms({1}))

NextPool == JobStepBy(1, PoolBatch)

SpecPool == InitPool /\ [][NextPool]_vars

\* ------------------------------------------------------------------ claims
\* The answer of this step is an answer to a poll on id.
Answers(id) == response' # response /\ response'.id = id

\* C1: when the fetch of listing page 1 fails, a poll on the job's id is
\* answered with the failure of that job (status failed), not with a
\* leaderboard and not as if the job did not exist.
C1_ListingFailureReported ==
    [][\A j \in JobIds :
          pc[j] = "failed" /\ Answers(j) =>
              response'.kind # "final" /\ response'.status = "failed"]_vars

\* C2: when a page behind page 1 cannot be fetched, fetch_league_data
\* returns the entries accumulated so far and the job goes on: it does not
\* end in an exception.
C2_PartialListingReturned ==
    \A j \in JobIds :
        (pc[j] \notin {"idle", "listing"} /\ all_results[j] # << >>
            /\ league_data[j].kind = "none")
        => (pc[j] # "crashed" /\ league_data[j].results = all_results[j])

\* C3: every completion of a unit raises processed by exactly 1, so a
\* completed job has processed = total.
C3_CompletedMeansAllProcessed ==
    \A j \in JobIds :
        progress_data[j].status = "completed" =>
            progress_data[j].processed = progress_data[j].total

\* The teams of the job's listing, and the rows of team t in a leaderboard.
Listed(j) == {managers[j][i].entry : i \in 1..Len(managers[j])}

RowsOf(lb, t) == {i \in 1..Len(lb) : lb[i].team_id = t}

\* The history fetch of team t returned a history that has the job's
\* gameweek.
Covered(j, t) ==
    /\ t \in fetched[j]
    /\ history[t].kind = "ok"
    /\ Len(history[t].current) >= gameweek[j]

\* C4: for a gameweek p >= 1 the leaderboard of a completed job holds one
\* row for each listed team whose history was fetched and has p entries,
\* with the points and the cost of entry p and their difference as net
\* points, and no other row; it is not longer than total.
C4_RowsOfCoveredTeams ==
    \A j \in JobIds :
        (pc[j] = "done" /\ gameweek[j] >= 1) =>
            LET lb == progress_data[j].data
            IN  /\ \A t \in TeamIds :
                       Cardinality(RowsOf(lb, t)) =
                           IF t \in Listed(j) /\ Covered(j, t) THEN 1 ELSE 0
                /\ \A i \in 1..Len(lb) :
                       /\ lb[i].team_id \in TeamIds
                       /\ LET e == history[lb[i].team_id].current[gameweek[j]]
                          IN  /\ lb[i].gw_points = e.points
                              /\ lb[i].transfer_cost = e.event_transfers_cost
                              /\ lb[i].net_points = e.points - e.event_transfers_cost
                /\ Len(lb) <= progress_data[j].total

\* A completed job for gameweek 2 with a team in the leaderboard, a team
\* whose history is too short and a team whose fetch failed.
C4_Witness ==
    /\ pc[1] = "done"
    /\ gameweek[1] = 2
    /\ \E t \in Listed(1) : Covered(1, t) /\ RowsOf(progress_data[1].data, t) # {}
           /\ history[t].current[2].event_transfers_cost > 0
    /\ \E t \in Listed(1) : t \in fetched[1] /\ history[t].kind = "ok"
           /\ Len(history[t].current) < 2
    /\ \E t \in Listed(1) : t \notin fetched[1]

\* C5: once the listing is obtained, no failure of a unit makes the job
\* fail or stop: the job is never in an error state, it can always take a
\* step until it is done, and when done it is completed with a leaderboard.
C5_UnitFailuresAbsorbed ==
    \A j \in {1} :
        progress_data[j].present =>
            /\ pc[j] \in {"loop", "wait", "return", "done"}
            /\ pc[j] = "done" \/ ENABLED JobStep(j)
            /\ pc[j] = "done" =>
                   /\ progress_data[j].status = "completed"
                   /\ progress_data[j].has_data
                   /\ batch_start[j] >= Len(managers[j])
                   /\ \A t \in Listed(j) :
                          Covered(j, t) /\ ~Raises(history[t], gameweek[j])
                              => RowsOf(progress_data[j].data, t) # {}

\* A job done although one fetch failed and another payload was malformed.
C5_Witness ==
    /\ pc[1] = "done"
    /\ progress_data[1].has_data
    /\ \E t \in Listed(1) : t \notin fetched[1]
    /\ \E t \in Listed(1) : t \in fetched[1] /\ history[t].kind = "malformed"

\* C6: a poll on an id that POST /leaderboard has returned is never
\* answered with 'Invalid request ID'.
C6_StartedIdIsKnown ==
    [][\A j \in JobIds :
          pc[j] # "idle" /\ Answers(j) => response'.kind # "error"]_vars

IsSortedDesc(lb) ==
    \A a, b \in 1..Len(lb) : a < b => lb[a].gw_points >= lb[b].gw_points

\* C7: an answer with status completed carries the leaderboard, and a
\* leaderboard in an answer is the final one of its job: sorted, and with a
\* row for every team that has one.
C7_CompletedAnswerIsFinal ==
    /\ response.status = "completed" => response.kind = "final"
    /\ response.kind = "final" =>
           /\ response.status = "completed"
           /\ pc[response.id] = "done"
           /\ response.leaderboard = leaderboard[response.id]
           /\ response.total_managers = Len(response.leaderboard)
           /\ IsSortedDesc(response.leaderboard)
           /\ \A t \in Listed(response.id) :
                  Covered(response.id, t) => RowsOf(response.leaderboard, t) # {}

\* A final answer whose leaderboard the sort had to reorder.
C7_Witness ==
    /\ response.kind = "final"
    /\ Len(response.leaderboard) >= 2
    /\ response.leaderboard # presort[response.id]

PosIn(lb, row) == CHOOSE i \in 1..Len(lb) : lb[i] = row

\* C8: the final leaderboard is the list handed to the sort, in
\* non-increasing order of gw_points, rows of equal gw_points in the order
\* they had in that list.
C8_SortedStable ==
    \A j \in JobIds :
        pc[j] \in {"return", "done"} =>
            LET lb  == leaderboard[j]
                pre == presort[j]
            IN  /\ Len(lb) = Len(pre)
                /\ {lb[i] : i \in 1..Len(lb)} = {pre[i] : i \in 1..Len(pre)}
                /\ IsSortedDesc(lb)
                /\ \A a, b \in 1..Len(lb) :
                       (a < b /\ lb[a].gw_points = lb[b].gw_points) =>
                           PosIn(pre, lb[a]) < PosIn(pre, lb[b])
                /\ pc[j] = "done" => progress_data[j].data = lb

\* A published leaderboard with two rows of equal points that were handed
\* to the sort with a row of more points between or behind them.
C8_Witness ==
    /\ pc[1] = "done"
    /\ \E a, b, c \in 1..Len(presort[1]) :
           /\ a < b /\ a < c
           /\ presort[1][a].gw_points = presort[1][b].gw_points
           /\ presort[1][a].gw_points < presort[1][c].gw_points

\* C9: the final leaderboard does not depend on the order in which the
\* workers complete: two jobs over the same listing, gameweek and fetched
\* histories publish the same leaderboard.
C9_OrderIndependent ==
    (/\ pc[1] = "done" /\ pc[2] = "done"
     /\ managers[1] = managers[2]
     /\ gameweek[1] = gameweek[2]
     /\ fetched[1] = fetched[2])
    => progress_data[1].data = progress_data[2].data

\* C10: processed never exceeds total, in the job's entry and in every
\* progress answer, whose percentage therefore lies in 0..100.
C10_ProcessedWithinTotal ==
    /\ \A j \in JobIds :
           /\ progress_data[j].processed <= progress_data[j].total
           /\ processed_count[j] <= progress_data[j].total
    /\ response.kind = "progress" =>
           /\ response.processed <= response.total
           /\ response.percentage \in 0..100

\* A progress answer of 100 percent.
C10_Witness ==
    /\ response.kind = "progress"
    /\ response.total > 0
    /\ response.processed = response.total
    /\ response.percentage = 100

\* The page at which the loop over listing l ends when every fetch returns
\* the upstream's page: the first page from n on that is empty or whose
\* has_next is not true.
RECURSIVE StopPage(_, _)
StopPage(l, n) ==
    IF n > Len(l) \/ l[n].results = << >> \/ l[n].has_next # "true"
    THEN n
    ELSE StopPage(l, n + 1)

\* The entries of pages 1..n of listing l, in page order.
RECURSIVE ConcatPages(_, _)
ConcatPages(l, n) ==
    IF n = 0 THEN << >>
    ELSE ConcatPages(l, n - 1) \o (IF n <= Len(l) THEN l[n].results ELSE << >>)

\* C11: when every page fetch succeeds, fetch_league_data has requested
\* pages 1, 2, ... up to the first page that is empty or whose has_next is
\* absent or false, and returns the entries of the requested pages in page
\* order; while it runs it holds the entries of the pages before the
\* current one.
C11_PagesConcatenated ==
    \A j \in JobIds :
        /\ pc[j] = "listing" =>
               /\ page[j] <= StopPage(standings, 1)
               /\ all_results[j] = ConcatPages(standings, page[j] - 1)
        /\ (pc[j] \notin {"idle", "listing"} /\ league_data[j].kind = "page") =>
               /\ page[j] = StopPage(standings, 1)
               /\ league_data[j].results = ConcatPages(standings, page[j])
               /\ Len(league_data[j].results) = TeamsOn(SubSeq(standings, 1, Min(page[j], Len(standings))))

\* A listing returned from page 2, which has entries and no has_next, with
\* the entries of both pages.
C11_Witness ==
    /\ pc[1] = "listed"
    /\ league_data[1].kind = "page"
    /\ page[1] = 2
    /\ Len(standings) >= 2
    /\ standings[2].has_next = "absent"
    /\ standings[2].results # << >>
    /\ Len(league_data[1].results) > Len(standings[2].results)

\* C12: the percentage of a progress answer is processed/total as a
\* percentage rounded down, floor(100 * processed / total), and 0 when
\* total is 0.
C12_PercentageIsFloor ==
    response.kind = "progress" =>
        response.percentage =
            IF response.total > 0
            THEN (100 * response.processed) \div response.total
            ELSE 0

\* C13: the processed count stored in a job's entry never goes down,
\* whatever the interleaving of the workers; two successive reads see a
\* value that has not decreased.
C13_ProcessedMonotonic ==
    [][\A j \in JobIds :
          progress_data'[j].processed >= progress_data[j].processed]_vars

\* C14: once the status of a job's entry is completed or failed, no step
\* writes a field of that entry: total, processed, status and data stay as
\* they are.
C14_TerminalEntryImmutable ==
    [][\A j \in JobIds :
          progress_data[j].status \in {"completed", "failed"} =>
              progress_data'[j] = progress_data[j]]_vars

\* The order of the values of status.
StatusRank(st) == IF st = "none" THEN 0 ELSE IF st = "processing" THEN 1 ELSE 2

\* C15: the status of a job goes from absent to processing to completed
\* and takes no other value and no step back: it is processing only when
\* the listing has been fetched, it is processing as long as a batch is
\* left or a unit is outstanding, it becomes completed only when every
\* batch has been collected, and a completed status never changes.
C15_StatusLinear ==
    /\ [](\A j \in JobIds :
              /\ progress_data[j].status \in {"none", "processing", "completed"}
              /\ progress_data[j].status = "none" <=> ~progress_data[j].present
              /\ progress_data[j].present =>
                     /\ league_data[j].kind = "page"
                     /\ managers[j] = league_data[j].results
              /\ (pc[j] = "wait" \/ units[j] # << >>
                      \/ (progress_data[j].present /\ batch_start[j] < Len(managers[j])))
                     => progress_data[j].status = "processing"
              /\ progress_data[j].status = "completed" =>
                     /\ pc[j] \in {"return", "done"}
                     /\ batch_start[j] >= Len(managers[j])
                     /\ units[j] = << >>)
    /\ [][\A j \in JobIds :
              progress_data'[j].status # progress_data[j].status =>
                  /\ StatusRank(progress_data'[j].status) =
                         StatusRank(progress_data[j].status) + 1
                  /\ progress_data[j].status = "none" => pc[j] = "listed"]_vars

\* A job completed after two batches.
C15_Witness ==
    /\ progress_data[1].status = "completed"
    /\ Len(managers[1]) > batch_size
    /\ batch_start[1] >= 2 * batch_size

\* C18: a row is created only for a gameweek the team's history covers:
\* for a gameweek of 0 or less, which no history covers, the leaderboard of
\* the job has no row, however long the histories are.
C18_NoRowForUncoveredPeriod ==
    \A j \in JobIds :
        gameweek[j] <= 0 =>
            /\ leaderboard[j] = << >>
            /\ progress_data[j].data = << >>

\* The variables of job j, as one value.
JobState(j) ==
    <<gameweek[j], progress_data[j], pc[j], page[j], all_results[j], league_data[j],
      managers[j], batch_start[j], units[j], processed_count[j], leaderboard[j],
      fetched[j], presort[j]>>

\* C20: jobs are isolated.  A step of one job changes neither the entry of
\* another job in progress_data nor any other of its variables, and a poll
\* on an id reads and answers with the total, the processed count and the
\* leaderboard of the entry of that id.
C20_JobsIsolated ==
    [][/\ \A j \in JobIds :
              JobStep(j) => \A k \in JobIds \ {j} : JobState(k)' = JobState(k)
       /\ (poll' # poll /\ poll'.at = "mid") =>
              /\ poll'.id \in JobIds
              /\ poll'.total = progress_data[poll'.id].total
              /\ poll'.processed = progress_data[poll'.id].processed
       /\ \A id \in JobIds :
              Answers(id) =>
                  /\ response'.kind = "progress" =>
                         /\ poll.id = id
                         /\ response'.total = progress_data[id].total
                         /\ response'.processed = poll.processed
                         /\ response'.percentage =
                                Percentage(progress_data[id].processed,
                                           progress_data[id].total)
                  /\ response'.kind = "final" =>
                         /\ response'.leaderboard = progress_data[id].data
                         /\ response'.leaderboard = leaderboard[id]]_vars

\* A poll on the id of job 1 is answered with job 1's leaderboard while the
\* entry of job 2 holds another one.
C20_Witness ==
    /\ response.kind = "final"
    /\ response.id = 1
    /\ response.leaderboard # << >>
    /\ progress_data[2].has_data
    /\ progress_data[2].data # << >>
    /\ progress_data[2].data # response.leaderboard

\* The units of the current batch whose result the job has taken.
Collected(j) == {u \in 1..Len(units[j]) : units[j][u].at = "collected"}

\* C17: once the listing is fetched and the job's entry created, every
\* submitted unit is collected, and collected once (the leaderboard never
\* holds more rows than units were collected); the job reaches the status
\* completed; and the client polling its id receives the completed answer
\* with the final leaderboard.
C17_EventuallyDelivered ==
    /\ [](Len(leaderboard[1]) <= Min(batch_start[1], Len(managers[1]))
                                     + Cardinality(Collected(1)))
    /\ \A u \in UnitIds :
           (pc[1] = "wait" /\ u <= Len(units[1]) /\ units[1][u].at = "queued")
               ~> (pc[1] = "loop" \/ (u <= Len(units[1]) /\ u \in Collected(1)))
    /\ progress_data[1].present ~> (progress_data[1].status = "completed")
    /\ progress_data[1].present
           ~> (/\ response.kind = "final"
               /\ response.id = 1
               /\ response.status = "completed"
               /\ pc[1] = "done"
               /\ response.leaderboard = leaderboard[1])

\* The completed answer for a league of two batches in which a history
\* fetch failed and another one returned a row.
C17_Witness ==
    /\ response.kind = "final"
    /\ response.id = 1
    /\ Len(managers[1]) > batch_size
    /\ Len(response.leaderboard) > 0
    /\ Len(response.leaderboard) < Len(managers[1])

\* The units of job j whose call of fetch_manager_gw_data has returned.
Returned(j) == {u \in 1..Len(units[j]) : units[j][u].at \in {"finished", "collected"}}

\* C16: within a job at most MAX_WORKERS calls of fetch_manager_gw_data
\* are in flight, and at most one batch is outstanding: the units of a job
\* are the managers of the batch at the loop's index, and the loop moves on
\* and submits the units of the next batch only when every unit of the
\* batch before has returned and been collected.
C16_BoundedInFlight ==
    /\ [](\A j \in JobIds :
              /\ Cardinality(Busy(j)) <= MAX_WORKERS
              /\ Len(units[j]) <= PoolBatch
              /\ \A u \in 1..Len(units[j]) :
                     /\ batch_start[j] + u <= Len(managers[j])
                     /\ units[j][u].manager = managers[j][batch_start[j] + u])
    /\ [][\A j \in JobIds :
              /\ batch_start'[j] # batch_start[j] =>
                     /\ Returned(j) = 1..Len(units[j])
                     /\ units'[j] = << >>
              /\ (units'[j] # << >> /\ units[j] # << >>) =>
                     /\ Len(units'[j]) = Len(units[j])
                     /\ \A u \in 1..Len(units[j]) :
                            units'[j][u].manager = units[j][u].manager
              /\ (units'[j] # << >> /\ units[j] = << >>) =>
                     \A u \in 1..Len(units'[j]) : units'[j][u].at = "queued"]_vars

\* The job is in its second batch, with a call in flight, after a first
\* batch of more calls than the pool has threads.
C16_Witness ==
    /\ batch_start[1] = PoolBatch
    /\ PoolBatch > MAX_WORKERS
    /\ Busy(1) # {}
    /\ Len(leaderboard[1]) = PoolBatch

\* C19: the batch size does not change the result: a run with batch_size,
\* which takes more than one batch, and a run with one batch for the whole
\* league, over the same listing, gameweek and fetched histories, publish
\* the same leaderboard.
C19_BatchSizeIrrelevant ==
    (/\ pc[1] = "done" /\ pc[2] = "done"
     /\ Len(managers[1]) > batch_size
     /\ Len(managers[2]) <= WholeLeague
     /\ managers[1] = managers[2]
     /\ gameweek[1] = gameweek[2]
     /\ fetched[1] = fetched[2])
    => progress_data[2].data = progress_data[1].data
====
